---------------------------- MODULE Spec2Model ----------------------------
(***************************************************************************)
(* Model of go-package-dependency: the line parser of parser.go            *)
(* (ParseDependencyContent, ParseLayersSection, ParsePackagesSection,      *)
(* calculateIndentationLevel) and the dependency query of types.go         *)
(* (GetDependenciesForPackage).                                            *)
(*                                                                         *)
(* Lines are TLA+ strings; the Go string functions the parser uses are     *)
(* operators over them, computed character by character.                   *)
(***************************************************************************)
EXTENDS Integers, Sequences, FiniteSets, TLC

VARIABLES
    doc,                \* which text is scanned: 0 = any text over LineSet, k = Documents[k]
    pos,                \* number of lines the scanner has returned so far
    rawLine,            \* parser.go:51, the line the scanner returned last
    pc,                 \* "scan" inside the line loop, "done" after the return, "call" / "called" for a direct call
    err,                \* the error returned ("" is nil)
    config,             \* the DependencyConfig under construction
    backing,            \* backing array of config.Layers: its identity (gen) and capacity (cap)
    inLayersSection,    \* parser.go:46
    inPackagesSection,  \* parser.go:47
    currentLayer,       \* parser.go:48, Nil or a pointer [gen, idx] into a backing array
    result,             \* the *DependencyConfig returned: Nil or the model
    prov,               \* history: for each layer its declaration line, for each package its bullet line
    lastSel,            \* history: outcome of the last numbered line of the Packages section
    argLines,           \* the lines still to be handed to direct calls of ParsePackagesSection
    target,             \* argument of the last GetDependenciesForPackage call
    targetLayer,        \* the layer that call located (0 is nil)
    deps,               \* the sequence that call returned
    moduleName          \* the ModuleName GetModuleNameFromContent returned ("" with an error)

vars == <<doc, pos, rawLine, pc, err, config, backing, inLayersSection, inPackagesSection,
          currentLayer, result, prov, lastSel, argLines, target, targetLayer, deps,
          moduleName>>

\* the nil pointer
Nil == [nil |-> TRUE]
NoTarget == [Path |-> "", Level |-> 0]

-----------------------------------------------------------------------------
(* Bounds of the model *)

MaxLines == 6       \* longest free text, in lines
MaxPkgs == 3        \* most packages, over all layers, of a directly constructed model
MaxIndent == 6      \* longest run of blanks before a bullet in a direct call
MaxPathLen == 4     \* longest path handed to LayerPath.Validate directly
MaxModLines == 3    \* longest manifest, in lines

-----------------------------------------------------------------------------
(* Go strings *)

\* the i-th character of s, "" beyond its end
Ch(s, i) == IF i \in 1..Len(s) THEN SubSeq(s, i, i) ELSE ""

Drop(s, n) == SubSeq(s, n + 1, Len(s))

\* unicode.IsSpace, over the characters the texts use
IsSpace(c) == c \in {" ", "\t"}

IsDigit(c) == c \in {"0", "1", "2", "3", "4", "5", "6", "7", "8", "9"}

\* number of leading characters of s that satisfy the class
LeadingSpaces(s) ==
    IF \A i \in 1..Len(s) : IsSpace(Ch(s, i)) THEN Len(s)
    ELSE (CHOOSE i \in 1..Len(s) :
             ~IsSpace(Ch(s, i)) /\ \A j \in 1..(i - 1) : IsSpace(Ch(s, j))) - 1

TrailingSpaces(s) ==
    IF \A i \in 1..Len(s) : IsSpace(Ch(s, i)) THEN Len(s)
    ELSE Len(s) - (CHOOSE i \in 1..Len(s) :
             ~IsSpace(Ch(s, i)) /\ \A j \in (i + 1)..Len(s) : IsSpace(Ch(s, j)))

LeadingDigits(s) ==
    IF \A i \in 1..Len(s) : IsDigit(Ch(s, i)) THEN Len(s)
    ELSE (CHOOSE i \in 1..Len(s) :
             ~IsDigit(Ch(s, i)) /\ \A j \in 1..(i - 1) : IsDigit(Ch(s, j))) - 1

\* strings.TrimSpace
TrimSpace(s) ==
    IF LeadingSpaces(s) = Len(s) THEN ""
    ELSE SubSeq(s, LeadingSpaces(s) + 1, Len(s) - TrailingSpaces(s))

\* a test that finds p anywhere in s
HasPrefix_Anywhere(s, p) ==
    \E i \in 1..(Len(s) - Len(p) + 1) : SubSeq(s, i, i + Len(p) - 1) = p

\* strings.HasPrefix
HasPrefix(s, p) == Len(s) >= Len(p) /\ SubSeq(s, 1, Len(p)) = p

\* strings.TrimPrefix
TrimPrefix(s, p) == IF HasPrefix(s, p) THEN Drop(s, Len(p)) ELSE s

\* strings.Contains
Contains(s, sub) ==
    \E i \in 1..(Len(s) - Len(sub) + 1) : SubSeq(s, i, i + Len(sub) - 1) = sub

DigitVal(c) == CHOOSE d \in 0..9 : Ch("0123456789", d + 1) = c

RECURSIVE DigitsValue(_)
DigitsValue(ds) ==
    IF ds = "" THEN 0
    ELSE 10 * DigitsValue(SubSeq(ds, 1, Len(ds) - 1)) + DigitVal(Ch(ds, Len(ds)))

\* the digits without their leading zeros
StripZeros(ds) ==
    IF \A i \in 1..Len(ds) : Ch(ds, i) = "0" THEN ""
    ELSE Drop(ds, (CHOOSE i \in 1..Len(ds) :
                      Ch(ds, i) # "0" /\ \A j \in 1..(i - 1) : Ch(ds, j) = "0") - 1)

MaxInt64 == "9223372036854775807"

\* a <= b for two digit strings of the same length
DigitsLeq(a, b) ==
    \/ a = b
    \/ \E i \in 1..Len(a) :
          /\ DigitVal(Ch(a, i)) < DigitVal(Ch(b, i))
          /\ SubSeq(a, 1, i - 1) = SubSeq(b, 1, i - 1)

\* strconv.Atoi on a string of digits: [ok, val]; out of the range of int is an error
Atoi(ds) ==
    LET z == StripZeros(ds) IN
    IF Len(z) < Len(MaxInt64) \/ (Len(z) = Len(MaxInt64) /\ DigitsLeq(z, MaxInt64))
    THEN [ok |-> TRUE, val |-> DigitsValue(z)]
    ELSE [ok |-> FALSE, val |-> 0]

\* the check for a numbered line without a name left out
EmptyLayerMatch_Never(s) == FALSE

\* regexp ^(\d+)\.\s*$
EmptyLayerMatch(s) ==
    LET d == LeadingDigits(s) IN
    /\ d >= 1
    /\ Ch(s, d + 1) = "."
    /\ \A i \in (d + 2)..Len(s) : IsSpace(Ch(s, i))

\* regexp ^(\d+)\.\s*(.+)$ : no whitespace needed between the dot and the name
LayerSubmatch_NoSpace(s) ==
    LET d == LeadingDigits(s)
        after == Drop(s, d + 1)
        w == LeadingSpaces(after)
        ws == IF w = Len(after) THEN w - 1 ELSE w
    IN  IF d >= 1 /\ Ch(s, d + 1) = "." /\ Len(after) >= 1
        THEN <<s, SubSeq(s, 1, d), Drop(after, ws)>>
        ELSE <<>>

\* regexp ^(\d+)\.\s+(.+)$ , FindStringSubmatch: <<>> or <<whole, digits, rest>>.
\* \s+ is greedy and gives back one character when it reaches the end of s.
LayerSubmatch(s) ==
    LET d == LeadingDigits(s)
        after == Drop(s, d + 1)
        w == LeadingSpaces(after)
        ws == IF w = Len(after) THEN w - 1 ELSE w
    IN  IF d >= 1 /\ Ch(s, d + 1) = "." /\ w >= 1 /\ Len(after) >= 2
        THEN <<s, SubSeq(s, 1, d), Drop(after, ws)>>
        ELSE <<>>

-----------------------------------------------------------------------------
(* types.go: validation *)

\* LayerName.IsValid
LayerNameIsValid(ln) == ln # "" /\ TrimSpace(ln) # ""

\* LayerName.Validate: the error, "" for nil
LayerNameValidate(ln) ==
    IF ~LayerNameIsValid(ln) THEN "layer name cannot be empty" ELSE ""

\* a validation that looks for ".." only as a whole segment of the path
LayerPathValidate_SegmentOnly(lp) ==
    IF lp = "" \/ TrimSpace(lp) = "" THEN "layer path cannot be empty"
    ELSE IF \E i \in 1..(Len(lp) - 1) :
                /\ Ch(lp, i) = "." /\ Ch(lp, i + 1) = "."
                /\ (i = 1 \/ Ch(lp, i - 1) = "/")
                /\ (i + 1 = Len(lp) \/ Ch(lp, i + 2) = "/")
         THEN "layer path cannot contain '..' for security reasons"
    ELSE ""

\* a validation that looks for emptiness only
LayerPathValidate_EmptyOnly(lp) ==
    IF lp = "" \/ TrimSpace(lp) = "" THEN "layer path cannot be empty" ELSE ""

\* LayerPath.Validate: the error, "" for nil
LayerPathValidate(lp) ==
    IF lp = "" \/ TrimSpace(lp) = "" THEN "layer path cannot be empty"
    ELSE IF Contains(lp, "..") THEN "layer path cannot contain '..' for security reasons"
    ELSE ""

\* ModuleName.Validate: the error, "" for nil
ModuleNameValidate(mn) ==
    IF mn = "" \/ TrimSpace(mn) = "" THEN "module name cannot be empty"
    ELSE IF Contains(mn, " ") THEN "module name cannot contain spaces"
    ELSE ""

-----------------------------------------------------------------------------
(* parser.go: the two line parsers.  They work on the record                *)
(*   [config, backing, currentLayer, err, prov, lastSel]                    *)
(* of what ParseDependencyContent passes them by reference; `no' is the     *)
(* number of the line, kept in the history only.                            *)

\* append(config.Layers, layer): a full backing array is replaced by a new one
\* of twice the capacity, which leaves older element pointers behind
GrowBacking(b, len) ==
    IF len < b.cap THEN b
    ELSE [gen |-> b.gen + 1, cap |-> IF b.cap = 0 THEN 1 ELSE 2 * b.cap]

\* an append that renumbers the layer by its position
AppendLayer_Renumber(layers, layer) ==
    Append(layers, [layer EXCEPT !.Order = Len(layers) + 1])

\* parser.go:135
AppendLayer(layers, layer) == Append(layers, layer)

\* parser.go:96-139
ParseLayersSection(line, st, no) ==
    LET trimmed == TrimSpace(line)
        matches == LayerSubmatch(trimmed)
    IN
    IF HasPrefix(trimmed, "-") \/ Contains(trimmed, "cannot depend") \/ trimmed = ""
    THEN st
    ELSE IF EmptyLayerMatch(trimmed)
    THEN [st EXCEPT !.err = "invalid layer name: layer name cannot be empty"]
    ELSE IF Len(matches) = 3
    THEN LET layerName == TrimSpace(matches[3])
             order == Atoi(matches[2])
             layer == [Name |-> layerName, Order |-> order.val, Packages |-> <<>>]
         IN  IF ~order.ok
             THEN [st EXCEPT !.err = "invalid layer order: " \o matches[2]]
             ELSE IF LayerNameValidate(layer.Name) # ""
             THEN [st EXCEPT !.err = "invalid layer name: " \o LayerNameValidate(layer.Name)]
             ELSE [st EXCEPT
                     !.config = [Layers |-> AppendLayer(st.config.Layers, layer)],
                     !.backing = GrowBacking(st.backing, Len(st.config.Layers)),
                     !.prov = Append(st.prov, [decl |-> [no |-> no, text |-> line],
                                               pkgs |-> <<>>])]
    ELSE st

\* parser.go:206-230: the spaces at the start of the line, up to the first
\* character that is not a space
SpacesBeforeDash(line) ==
    IF \A i \in 1..Len(line) : Ch(line, i) = " " THEN Len(line)
    ELSE (CHOOSE i \in 1..Len(line) :
             Ch(line, i) # " " /\ \A j \in 1..(i - 1) : Ch(line, j) = " ") - 1

\* a level for every two spaces, without the cap at 1
calculateIndentationLevel_Unsaturated(line) ==
    IF SpacesBeforeDash(line) >= 2 THEN (SpacesBeforeDash(line) \div 2) - 1 ELSE 0

\* level 1 from two spaces on
calculateIndentationLevel_TwoSpaces(line) ==
    IF SpacesBeforeDash(line) >= 2 THEN 1 ELSE 0

calculateIndentationLevel(line) ==
    IF SpacesBeforeDash(line) >= 4 THEN 1
    ELSE IF SpacesBeforeDash(line) >= 2 THEN 0
    ELSE 0

\* the first layer with this order, whatever its name
FindLayer_OrderOnly(layers, layerName, order) ==
    LET hits == {i \in 1..Len(layers) : layers[i].Order = order}
    IN  IF hits = {} THEN 0 ELSE CHOOSE i \in hits : \A j \in hits : i <= j

\* parser.go:168-174: the first layer with this name and this order, 0 if none
FindLayer(layers, layerName, order) ==
    LET hits == {i \in 1..Len(layers) :
                    layers[i].Name = layerName /\ layers[i].Order = order}
    IN  IF hits = {} THEN 0 ELSE CHOOSE i \in hits : \A j \in hits : i <= j

\* the path of a bullet validated before the current layer is looked at
ParsePackagesSection_ValidatesFirst(line, st, no) ==
    LET trimmed == TrimSpace(line)
        matches == LayerSubmatch(trimmed)
    IN
    IF Contains(trimmed, "cannot depend") \/ trimmed = ""
    THEN st
    ELSE IF EmptyLayerMatch(trimmed)
    THEN [st EXCEPT !.err = "invalid layer name: layer name cannot be empty"]
    ELSE IF Len(matches) = 3
    THEN LET layerName == TrimSpace(matches[3])
             order == Atoi(matches[2])
             i == FindLayer(st.config.Layers, layerName, order.val)
         IN  IF ~order.ok
             THEN [st EXCEPT !.err = "invalid layer order: " \o matches[2]]
             ELSE IF i # 0
             THEN [st EXCEPT !.currentLayer = [gen |-> st.backing.gen, idx |-> i],
                             !.lastSel = "hit"]
             ELSE [st EXCEPT !.lastSel = "miss"]
    ELSE IF HasPrefix(trimmed, "- ")
    THEN LET packagePath == TrimSpace(TrimPrefix(trimmed, "- "))
             level == calculateIndentationLevel(line)
             pkg == [Path |-> packagePath, Level |-> level]
             cl == st.currentLayer
         IN  IF packagePath = ""
             THEN st
             ELSE IF LayerPathValidate(pkg.Path) # ""
             THEN [st EXCEPT !.err = "invalid package path: " \o LayerPathValidate(pkg.Path)]
             ELSE IF cl = Nil
             THEN st
             ELSE IF cl.gen = st.backing.gen
             THEN [st EXCEPT
                     !.config.Layers[cl.idx].Packages = Append(@, pkg),
                     !.prov[cl.idx].pkgs =
                         Append(@, [no |-> no, text |-> line, sel |-> st.lastSel])]
             \* the pointer is into an array config.Layers no longer uses:
             \* the package lands in the old copy of the layer
             ELSE st
    ELSE st

\* parser.go:141-204
ParsePackagesSection(line, st, no) ==
    LET trimmed == TrimSpace(line)
        matches == LayerSubmatch(trimmed)
    IN
    IF Contains(trimmed, "cannot depend") \/ trimmed = ""
    THEN st
    ELSE IF EmptyLayerMatch(trimmed)
    THEN [st EXCEPT !.err = "invalid layer name: layer name cannot be empty"]
    ELSE IF Len(matches) = 3
    THEN LET layerName == TrimSpace(matches[3])
             order == Atoi(matches[2])
             i == FindLayer(st.config.Layers, layerName, order.val)
         IN  IF ~order.ok
             THEN [st EXCEPT !.err = "invalid layer order: " \o matches[2]]
             ELSE IF i # 0
             THEN [st EXCEPT !.currentLayer = [gen |-> st.backing.gen, idx |-> i],
                             !.lastSel = "hit"]
             ELSE [st EXCEPT !.lastSel = "miss"]
    ELSE IF HasPrefix(trimmed, "- ") /\ st.currentLayer # Nil
    THEN LET packagePath == TrimSpace(TrimPrefix(trimmed, "- "))
             level == calculateIndentationLevel(line)
             pkg == [Path |-> packagePath, Level |-> level]
             cl == st.currentLayer
         IN  IF packagePath = ""
             THEN st
             ELSE IF LayerPathValidate(pkg.Path) # ""
             THEN [st EXCEPT !.err = "invalid package path: " \o LayerPathValidate(pkg.Path)]
             ELSE IF cl.gen = st.backing.gen
             THEN [st EXCEPT
                     !.config.Layers[cl.idx].Packages = Append(@, pkg),
                     !.prov[cl.idx].pkgs =
                         Append(@, [no |-> no, text |-> line, sel |-> st.lastSel])]
             \* the pointer is into an array config.Layers no longer uses:
             \* the package lands in the old copy of the layer
             ELSE st
    ELSE st

-----------------------------------------------------------------------------
(* parser.go: GetModuleNameFromContent.  The content is the sequence of the *)
(* lines its scanner returns; the result is the pair the function returns.  *)

\* a scan that passes over a 'module ' line with an invalid name
RECURSIVE GetModuleNameFromContent_SkipInvalid(_, _)
GetModuleNameFromContent_SkipInvalid(lines, sourceName) ==
    IF lines = <<>>
    THEN [moduleName |-> "", err |-> "module declaration not found in " \o sourceName]
    ELSE LET line == TrimSpace(Head(lines))
             name == TrimSpace(TrimPrefix(line, "module "))
         IN  IF HasPrefix(line, "module ") /\ ModuleNameValidate(name) = ""
             THEN [moduleName |-> name, err |-> ""]
             ELSE GetModuleNameFromContent_SkipInvalid(Tail(lines), sourceName)

\* parser.go:256-267
RECURSIVE GetModuleNameFromContent(_, _)
GetModuleNameFromContent(lines, sourceName) ==
    IF lines = <<>>
    THEN [moduleName |-> "", err |-> "module declaration not found in " \o sourceName]
    ELSE LET line == TrimSpace(Head(lines))
             name == TrimSpace(TrimPrefix(line, "module "))
         IN  IF HasPrefix(line, "module ")
             THEN IF ModuleNameValidate(name) # ""
                  THEN [moduleName |-> "",
                        err |-> "invalid module name: " \o ModuleNameValidate(name)]
                  ELSE [moduleName |-> name, err |-> ""]
             ELSE GetModuleNameFromContent(Tail(lines), sourceName)

-----------------------------------------------------------------------------
(* types.go: GetDependenciesForPackage *)

HoldsPath(layer, path) == \E k \in 1..Len(layer.Packages) : layer.Packages[k].Path = path

\* the last layer that holds the path instead of the first
FindTargetLayer_Last(dc, targetPackage) ==
    LET hits == {i \in 1..Len(dc.Layers) : HoldsPath(dc.Layers[i], targetPackage.Path)}
    IN  IF hits = {} THEN 0 ELSE CHOOSE i \in hits : \A j \in hits : i >= j

\* types.go:160-172: the first layer, in slice order, with a package of the
\* target's path; 0 for nil
FindTargetLayer(dc, targetPackage) ==
    LET hits == {i \in 1..Len(dc.Layers) : HoldsPath(dc.Layers[i], targetPackage.Path)}
    IN  IF hits = {} THEN 0 ELSE CHOOSE i \in hits : \A j \in hits : i <= j

\* the paths of pkgs, each put in front of the ones before it
RECURSIVE PathsOf_Reversed(_)
PathsOf_Reversed(pkgs) ==
    IF pkgs = <<>> THEN <<>> ELSE PathsOf_Reversed(Tail(pkgs)) \o <<Head(pkgs).Path>>

\* the paths of pkgs, in order
RECURSIVE PathsOf(_)
PathsOf(pkgs) ==
    IF pkgs = <<>> THEN <<>> ELSE <<Head(pkgs).Path>> \o PathsOf(Tail(pkgs))

\* <= for <
IsUpperLayer_Leq(layer, tl) == layer.Order <= tl.Order

\* any layer of another order value, a greater one too
IsUpperLayer_OtherOrder(layer, tl) == layer.Order # tl.Order

\* only the layer of the order value just below
IsUpperLayer_Adjacent(layer, tl) == layer.Order = tl.Order - 1

\* types.go:180: the test that makes a layer an upper layer of the target's
IsUpperLayer(layer, tl) == layer.Order < tl.Order

\* types.go:178-185: the loop over dc.Layers, from layer i on
RECURSIVE UpperLayerDeps(_, _, _)
UpperLayerDeps(dc, tl, i) ==
    IF i > Len(dc.Layers) THEN <<>>
    ELSE (IF IsUpperLayer(dc.Layers[i], tl) THEN PathsOf(dc.Layers[i].Packages) ELSE <<>>)
         \o UpperLayerDeps(dc, tl, i + 1)

\* types.go:187-194: index of the first package of the layer with the target's path
TargetIndex(tl, targetPackage) ==
    LET hits == {i \in 1..Len(tl.Packages) : tl.Packages[i].Path = targetPackage.Path}
    IN  IF hits = {} THEN 1 ELSE CHOOSE i \in hits : \A j \in hits : i <= j

\* the index test forgotten: any sibling of the same depth
IsSameLayerDep_AnySameLevel(pkg, i, targetPackage, targetIndex) ==
    /\ pkg.Path # targetPackage.Path
    /\ pkg.Level <= targetPackage.Level

\* the test of the paths forgotten
IsSameLayerDep_NoPathTest(pkg, i, targetPackage, targetIndex) ==
    \/ pkg.Level < targetPackage.Level
    \/ (pkg.Level = targetPackage.Level /\ i < targetIndex)

\* the shallower siblings only
IsSameLayerDep_LevelOnly(pkg, i, targetPackage, targetIndex) ==
    /\ pkg.Path # targetPackage.Path
    /\ pkg.Level < targetPackage.Level

\* types.go:198-203: whether the package at index i of the target's layer is a dependency
IsSameLayerDep(pkg, i, targetPackage, targetIndex) ==
    /\ pkg.Path # targetPackage.Path
    /\ \/ pkg.Level < targetPackage.Level
       \/ (pkg.Level = targetPackage.Level /\ i < targetIndex)

\* types.go:196-205: the loop over targetLayer.Packages, from index i on
RECURSIVE SameLayerDeps(_, _, _)
SameLayerDeps(tl, targetPackage, i) ==
    IF i > Len(tl.Packages) THEN <<>>
    ELSE (IF IsSameLayerDep(tl.Packages[i], i, targetPackage, TargetIndex(tl, targetPackage))
          THEN <<tl.Packages[i].Path>> ELSE <<>>)
         \o SameLayerDeps(tl, targetPackage, i + 1)

\* the two loops in the other order
GetDependenciesForPackage_SameFirst(dc, targetPackage) ==
    LET t == FindTargetLayer(dc, targetPackage) IN
    IF t = 0 THEN <<>>
    ELSE SameLayerDeps(dc.Layers[t], targetPackage, 1) \o UpperLayerDeps(dc, dc.Layers[t], 1)

\* types.go:157-208
GetDependenciesForPackage(dc, targetPackage) ==
    LET t == FindTargetLayer(dc, targetPackage) IN
    IF t = 0 THEN <<>>
    ELSE UpperLayerDeps(dc, dc.Layers[t], 1) \o SameLayerDeps(dc.Layers[t], targetPackage, 1)

-----------------------------------------------------------------------------
(* The texts *)

\* the example of the tests (types_test.go:385-417, "valid hierarchical dependency file")
Canonical ==
    << "# Dependencies",
       "",
       "## Layers",
       "",
       "Upper layers cannot depend on lower layers.",
       "",
       "1. Domain layer",
       "  - Implementation of core entities",
       "2. Application layer",
       "  - Business logic using objects from the domain layer",
       "3. Presentation layer",
       "  - UI and presentation logic",
       "4. Infra layer",
       "  - Gateway to the real world",
       "",
       "## Packages in layers",
       "",
       "Upper packages cannot depend on lower packages.",
       "",
       "1. Domain layer",
       "  - domain/entity",
       "  - domain/valueobject",
       "    - domain/service",
       "2. Application layer",
       "  - app/service",
       "    - app/usecase",
       "3. Presentation layer",
       "  - api",
       "  - cli",
       "4. Infra layer",
       "  - infra/database",
       "  - infra/cache" >>

\* the text with its two sections exchanged: what stands from the Packages
\* header on, then what stands before it
SectionsSwapped(text) ==
    LET h == CHOOSE i \in 1..Len(text) : text[i] = "## Packages in layers"
    IN  SubSeq(text, h, Len(text)) \o SubSeq(text, 1, h - 1)

\* a text that goes back to its Layers section after a layer has been selected
\* and given a package, and then on to a second Packages section
Interleaved ==
    << "## Layers", "1. A", "## Packages in layers", "1. A", "  - x",
       "## Layers", "3. B", "## Packages in layers", "3. B", "  - y", "1. A", "  - z" >>

\* texts with the lines the tables leave out: lines before the first header,
\* prose and malformed lines inside the sections, invalid lines followed by
\* valid ones, a layer declared with the order 0, the canonical text with its
\* Packages section first, and the text with repeated sections
FurtherTexts ==
    << << "9.", "1. Stray layer", "  - stray/path", "# Dependency rules", "  ## Layers", "",
          "1. Domain layer", "  - Core entities", "- ../notes",
          "Upper layers cannot depend on lower layers",
          "2. Layers cannot depend on themselves", "x. Invalid layer", "2.Application",
          "### Notes on ## Layers", "2. Application layer", "## Packages in layers",
          "# see ## Layers", "", "2. Application layer", "    - app/service",
          "  - app/port" >>,
       << "## Layers", "1. Domain layer", "2. \t", "3. Presentation layer",
          "## Packages in layers", "1. Domain layer", "  - domain/entity" >>,
       << "## Layers", "1. Domain layer", "## Packages in layers", "1. Domain layer",
          "  - domain/entity", "2.", "  - domain/value" >>,
       << "## Layers", "1. Domain layer", "## Packages in layers", "1. Domain layer",
          "  - domain/entity", "  - domain/../secret", "  - domain/value" >>,
       << "## Layers", "0. A" >>,
       SectionsSwapped(Canonical),
       Interleaved >>

\* the canonical text and the other texts of the same test table, then the
\* further ones
Documents ==
    << Canonical,
       << >>,
       << "## Layers", "1. Test layer", "  - Test layer description" >>,
       << "## Packages in layers", "1. Domain layer", "  - domain/entity" >>,
       << "## Layers", "1. Test layer", "", "## Packages in layers", "1. Test layer",
          "  - ../invalid/path" >>,
       << "## Layers", "1. Domain layer", "", "## Packages in layers", "1. Domain layer",
          "  - domain/entity" >> >>
    \o FurtherTexts

\* the lines of a free text
LineSet ==
    { "## Layers", "## Packages in layers",
      "1. A", "3. A", "3. B",
      "  - x", "  - a..b",
      "1.", "x. B", "" }

\* a path no model holds
MissingPath == "none"

Levels == {0, 1}

-----------------------------------------------------------------------------
(* parser.go:28-94: ParseDependencyContent *)

Init ==
    /\ doc \in 0..Len(Documents)
    /\ pos = 0
    /\ pc = "scan"
    /\ err = ""
    /\ config = [Layers |-> <<>>]
    /\ backing = [gen |-> 0, cap |-> 0]
    /\ inLayersSection = FALSE
    /\ inPackagesSection = FALSE
    /\ currentLayer = Nil
    /\ result = Nil
    /\ prov = <<>>
    /\ lastSel = "none"
    /\ argLines = <<>>
    /\ target = NoTarget
    /\ targetLayer = 0
    /\ deps = <<>>
    /\ rawLine = ""
    /\ moduleName = ""

\* the lines scanner.Scan can return next
NextLines ==
    IF doc = 0 THEN (IF pos < MaxLines THEN LineSet ELSE {})
    ELSE (IF pos < Len(Documents[doc]) THEN {Documents[doc][pos + 1]} ELSE {})

ParserState ==
    [config |-> config, backing |-> backing, currentLayer |-> currentLayer,
     err |-> err, prov |-> prov, lastSel |-> lastSel]

\* the two section parsers with an invalid line skipped and the scan continued
Dispatch_SkipInvalid(raw, st, no) ==
    LET a == IF inLayersSection THEN ParseLayersSection(raw, st, no) ELSE st
        b == IF inPackagesSection
             THEN ParsePackagesSection(raw, [a EXCEPT !.err = ""], no) ELSE a
    IN  [b EXCEPT !.err = ""]

\* both section parsers on every line, whatever the section
Dispatch_Both(raw, st, no) ==
    LET a == ParseLayersSection(raw, st, no)
    IN  IF a.err # "" THEN a ELSE ParsePackagesSection(raw, a, no)

\* the layer parser on every line, whatever the section
Dispatch_LayersAlways(raw, st, no) ==
    LET a == ParseLayersSection(raw, st, no)
    IN  IF a.err # "" THEN a
        ELSE IF inPackagesSection THEN ParsePackagesSection(raw, a, no) ELSE a

\* parser.go:71-86: the two section parsers on a line that is no header
Dispatch(raw, st, no) ==
    LET a == IF inLayersSection THEN ParseLayersSection(raw, st, no) ELSE st
    IN  IF a.err # "" THEN a
        ELSE IF inPackagesSection THEN ParsePackagesSection(raw, a, no) ELSE a

\* the loop with a Packages header that leaves inLayersSection as it is
ScanLine_LayersFlagKept ==
    /\ pc = "scan"
    /\ \E text \in NextLines :
         LET line == TrimSpace(text)
             st == Dispatch(text, ParserState, pos + 1)
         IN
         /\ pos' = pos + 1
         /\ rawLine' = text
         /\ IF HasPrefix(line, "## Layers")
            THEN /\ inLayersSection' = TRUE
                 /\ inPackagesSection' = FALSE
                 /\ UNCHANGED <<config, backing, currentLayer, err, prov, lastSel, pc, result>>
            ELSE IF HasPrefix(line, "## Packages in layers")
            THEN /\ inPackagesSection' = TRUE
                 /\ currentLayer' = Nil
                 /\ lastSel' = "none"
                 /\ UNCHANGED <<inLayersSection, config, backing, err, prov, pc, result>>
            ELSE IF line = "" \/ HasPrefix(line, "#")
            THEN UNCHANGED <<config, backing, currentLayer, err, prov, lastSel, pc, result,
                             inLayersSection, inPackagesSection>>
            ELSE /\ config' = st.config
                 /\ backing' = st.backing
                 /\ currentLayer' = st.currentLayer
                 /\ prov' = st.prov
                 /\ lastSel' = st.lastSel
                 /\ err' = st.err
                 /\ pc' = IF st.err # "" THEN "done" ELSE "scan"
                 /\ result' = Nil
                 /\ UNCHANGED <<inLayersSection, inPackagesSection>>
    /\ UNCHANGED <<doc, argLines, target, targetLayer, deps, moduleName>>

\* the loop with a Packages header that leaves currentLayer as it is
ScanLine_CurrentLayerKept ==
    /\ pc = "scan"
    /\ \E text \in NextLines :
         LET line == TrimSpace(text)
             st == Dispatch(text, ParserState, pos + 1)
         IN
         /\ pos' = pos + 1
         /\ rawLine' = text
         /\ IF HasPrefix(line, "## Layers")
            THEN /\ inLayersSection' = TRUE
                 /\ inPackagesSection' = FALSE
                 /\ UNCHANGED <<config, backing, currentLayer, err, prov, lastSel, pc, result>>
            ELSE IF HasPrefix(line, "## Packages in layers")
            THEN /\ inLayersSection' = FALSE
                 /\ inPackagesSection' = TRUE
                 /\ lastSel' = "none"
                 /\ UNCHANGED <<currentLayer, config, backing, err, prov, pc, result>>
            ELSE IF line = "" \/ HasPrefix(line, "#")
            THEN UNCHANGED <<config, backing, currentLayer, err, prov, lastSel, pc, result,
                             inLayersSection, inPackagesSection>>
            ELSE /\ config' = st.config
                 /\ backing' = st.backing
                 /\ currentLayer' = st.currentLayer
                 /\ prov' = st.prov
                 /\ lastSel' = st.lastSel
                 /\ err' = st.err
                 /\ pc' = IF st.err # "" THEN "done" ELSE "scan"
                 /\ result' = Nil
                 /\ UNCHANGED <<inLayersSection, inPackagesSection>>
    /\ UNCHANGED <<doc, argLines, target, targetLayer, deps, moduleName>>

\* parser.go:50-87: one turn of the loop
ScanLine ==
    /\ pc = "scan"
    /\ \E text \in NextLines :
         LET line == TrimSpace(text)
             st == Dispatch(text, ParserState, pos + 1)
         IN
         /\ pos' = pos + 1
         /\ rawLine' = text
         /\ IF HasPrefix(line, "## Layers")
            THEN /\ inLayersSection' = TRUE
                 /\ inPackagesSection' = FALSE
                 /\ UNCHANGED <<config, backing, currentLayer, err, prov, lastSel, pc, result>>
            ELSE IF HasPrefix(line, "## Packages in layers")
            THEN /\ inLayersSection' = FALSE
                 /\ inPackagesSection' = TRUE
                 /\ currentLayer' = Nil
                 /\ lastSel' = "none"
                 /\ UNCHANGED <<config, backing, err, prov, pc, result>>
            ELSE IF line = "" \/ HasPrefix(line, "#")
            THEN UNCHANGED <<config, backing, currentLayer, err, prov, lastSel, pc, result,
                             inLayersSection, inPackagesSection>>
            ELSE /\ config' = st.config
                 /\ backing' = st.backing
                 /\ currentLayer' = st.currentLayer
                 /\ prov' = st.prov
                 /\ lastSel' = st.lastSel
                 /\ err' = st.err
                 /\ pc' = IF st.err # "" THEN "done" ELSE "scan"
                 /\ result' = Nil
                 /\ UNCHANGED <<inLayersSection, inPackagesSection>>
    /\ UNCHANGED <<doc, argLines, target, targetLayer, deps, moduleName>>

\* parser.go:89-93: the scanner is at the end of the text
ScanEnd ==
    /\ pc = "scan"
    /\ IF doc = 0 THEN TRUE ELSE pos = Len(Documents[doc])
    /\ pc' = "done"
    /\ result' = config
    /\ UNCHANGED <<doc, pos, rawLine, err, config, backing, inLayersSection,
                   inPackagesSection, currentLayer, prov, lastSel, argLines, target,
                   targetLayer, deps, moduleName>>

\* every path of the model
AllPaths(dc) ==
    UNION {{dc.Layers[i].Packages[k].Path : k \in 1..Len(dc.Layers[i].Packages)} :
              i \in 1..Len(dc.Layers)}

\* the packages a caller can ask about: a path of the model or one it does
\* not hold, at either level
Targets(dc) ==
    {[Path |-> p, Level |-> l] : p \in AllPaths(dc) \cup {MissingPath}, l \in Levels}

\* the layers by ascending order value, equal values in declaration order
RECURSIVE SortedByOrder(_)
SortedByOrder(layers) ==
    IF layers = <<>> THEN <<>>
    ELSE LET m == CHOOSE i \in 1..Len(layers) :
                     \A j \in 1..Len(layers) :
                        \/ layers[i].Order < layers[j].Order
                        \/ (layers[i].Order = layers[j].Order /\ i <= j)
         IN  <<layers[m]>>
             \o SortedByOrder(SubSeq(layers, 1, m - 1) \o SubSeq(layers, m + 1, Len(layers)))

\* a call that first sorts the layers of the model in place
Query_SortsLayers ==
    /\ pc = "done"
    /\ result # Nil
    /\ \E t \in Targets(result) :
         /\ target' = t
         /\ result' = [Layers |-> SortedByOrder(result.Layers)]
         /\ targetLayer' = FindTargetLayer(result', t)
         /\ deps' = GetDependenciesForPackage(result', t)
    /\ UNCHANGED <<doc, pos, rawLine, pc, err, config, backing, inLayersSection,
                   inPackagesSection, currentLayer, prov, lastSel, argLines,
                   moduleName>>

\* a call of GetDependenciesForPackage on the model the parse returned
Query ==
    /\ pc = "done"
    /\ result # Nil
    /\ \E t \in Targets(result) :
         /\ target' = t
         /\ targetLayer' = FindTargetLayer(result, t)
         /\ deps' = GetDependenciesForPackage(result, t)
    /\ UNCHANGED <<doc, pos, rawLine, pc, err, config, backing, inLayersSection,
                   inPackagesSection, currentLayer, result, prov, lastSel, argLines,
                   moduleName>>

Next == ScanLine \/ ScanEnd \/ Query

Spec == Init /\ [][Next]_vars

-----------------------------------------------------------------------------
(* GetDependenciesForPackage on models built directly, as types_test.go     *)
(* builds them: layers named from LayerNames with orders in Orders, up to   *)
(* MaxPkgs packages over all of them.  Paths are named a, b, c in the order *)
(* of their first appearance: the query compares paths only for equality.   *)

Orders == {1, 2, 3}

LayerNames == <<"Domain layer", "Application layer", "Presentation layer">>

PathNames == <<"a", "b", "c">>

\* the sequences over 1..Len(PathNames) of length k in which every number
\* appears after all smaller ones
PathPatterns(k) ==
    {f \in [1..k -> 1..Len(PathNames)] :
        \A i \in 1..k : f[i] <= 1 + Cardinality({f[j] : j \in 1..(i - 1)})
                        /\ \A n \in 1..(f[i] - 1) : \E j \in 1..(i - 1) : f[j] = n}

\* which layer each of k packages belongs to: layer numbers that never decrease
Owners(k, n) ==
    {w \in [1..k -> 1..n] : \A i \in 1..(k - 1) : w[i] <= w[i + 1]}

\* the packages of layer l, in order
RECURSIVE PackagesOfLayer(_, _, _, _, _)
PackagesOfLayer(l, f, lv, w, i) ==
    IF i > Len(f) THEN <<>>
    ELSE (IF w[i] = l THEN <<[Path |-> PathNames[f[i]], Level |-> lv[i]]>> ELSE <<>>)
         \o PackagesOfLayer(l, f, lv, w, i + 1)

BuildModel(o, f, lv, w) ==
    [Layers |-> [l \in 1..Len(o) |->
                    [Name |-> LayerNames[l], Order |-> o[l],
                     Packages |-> PackagesOfLayer(l, f, lv, w, 1)]]]

InitDeps ==
    /\ \E n \in 0..Len(LayerNames), k \in 0..MaxPkgs :
         \E o \in [1..n -> Orders], f \in PathPatterns(k), lv \in [1..k -> Levels],
            w \in Owners(k, n) :
              /\ config = BuildModel(o, f, lv, w)
              /\ prov = [l \in 1..n |-> [decl |-> [no |-> 0, text |-> ""], pkgs |-> <<>>]]
              /\ backing = [gen |-> 1, cap |-> n]
    /\ result = config
    /\ doc = 0
    /\ pos = 0
    /\ pc = "done"
    /\ err = ""
    /\ inLayersSection = FALSE
    /\ inPackagesSection = FALSE
    /\ currentLayer = Nil
    /\ lastSel = "none"
    /\ argLines = <<>>
    /\ target = NoTarget
    /\ targetLayer = 0
    /\ deps = <<>>
    /\ rawLine = ""
    /\ moduleName = ""

\* the one call made on such a model
QueryOnce == target = NoTarget /\ Query

NextDeps == QueryOnce

SpecDeps == InitDeps /\ [][NextDeps]_vars

-----------------------------------------------------------------------------
(* ParsePackagesSection called line by line on a model with one layer, as   *)
(* TestParsePackagesSection calls it: the selector of the layer, then one   *)
(* bullet line behind up to MaxIndent blanks.                               *)

RECURSIVE Blanks(_)
Blanks(n) ==
    IF n = 0 THEN {""}
    ELSE Blanks(n - 1) \cup {b \o c : b \in Blanks(n - 1), c \in {" ", "\t"}}

InitCall ==
    /\ argLines \in {<<"1. A", b \o "- p">> : b \in Blanks(MaxIndent)}
    /\ config = [Layers |-> <<[Name |-> "A", Order |-> 1, Packages |-> <<>>]>>]
    /\ prov = <<[decl |-> [no |-> 0, text |-> "1. A"], pkgs |-> <<>>]>>
    /\ backing = [gen |-> 1, cap |-> 1]
    /\ currentLayer = Nil
    /\ lastSel = "none"
    /\ result = Nil
    /\ doc = 0
    /\ pos = 0
    /\ pc = "call"
    /\ err = ""
    /\ inLayersSection = FALSE
    /\ inPackagesSection = TRUE
    /\ target = NoTarget
    /\ targetLayer = 0
    /\ deps = <<>>
    /\ rawLine = ""
    /\ moduleName = ""

\* parser.go:141-204 on the next line
CallPackagesSection ==
    /\ pc = "call"
    /\ argLines # <<>>
    /\ LET st == ParsePackagesSection(Head(argLines), ParserState, pos + 1) IN
         /\ config' = st.config
         /\ backing' = st.backing
         /\ currentLayer' = st.currentLayer
         /\ prov' = st.prov
         /\ lastSel' = st.lastSel
         /\ err' = st.err
    /\ argLines' = Tail(argLines)
    /\ pos' = pos + 1
    /\ rawLine' = Head(argLines)
    /\ UNCHANGED <<doc, pc, inLayersSection, inPackagesSection, result, target,
                   targetLayer, deps, moduleName>>

NextCall == CallPackagesSection

SpecCall == InitCall /\ [][NextCall]_vars

-----------------------------------------------------------------------------
(* LayerPath.Validate called on a path, as TestLayerPath_Validate calls it: *)
(* every string of up to MaxPathLen characters of PathAlphabet.             *)

PathAlphabet == {"a", "b", ".", "/", " ", "\t"}

RECURSIVE PathStrings(_)
PathStrings(n) ==
    IF n = 0 THEN {""}
    ELSE PathStrings(n - 1) \cup {s \o c : s \in PathStrings(n - 1), c \in PathAlphabet}

InitValidate ==
    /\ argLines \in {<<p>> : p \in PathStrings(MaxPathLen)}
    /\ pc = "validate"
    /\ err = ""
    /\ config = [Layers |-> <<>>]
    /\ prov = <<>>
    /\ backing = [gen |-> 0, cap |-> 0]
    /\ currentLayer = Nil
    /\ lastSel = "none"
    /\ result = Nil
    /\ doc = 0
    /\ pos = 0
    /\ inLayersSection = FALSE
    /\ inPackagesSection = FALSE
    /\ target = NoTarget
    /\ targetLayer = 0
    /\ deps = <<>>
    /\ rawLine = ""
    /\ moduleName = ""

\* types.go:40-45 on the path
CallValidate ==
    /\ pc = "validate"
    /\ err' = LayerPathValidate(argLines[1])
    /\ pc' = "validated"
    /\ UNCHANGED <<doc, pos, rawLine, config, backing, inLayersSection, inPackagesSection,
                   currentLayer, result, prov, lastSel, argLines, target, targetLayer,
                   deps, moduleName>>

NextValidate == CallValidate

SpecValidate == InitValidate /\ [][NextValidate]_vars

-----------------------------------------------------------------------------
(* GetModuleNameFromContent called on a manifest, as                        *)
(* TestGetModuleNameFromContent calls it: every text of up to MaxModLines   *)
(* lines of ModLineSet.                                                     *)

ModLineSet ==
    { "module a", "module  a/b ", "module a b", "module a\tb", "module ", "  module c",
      "go 1.21", "", "modulex" }

SourceName == "test.mod"

InitModule ==
    /\ \E n \in 0..MaxModLines : argLines \in [1..n -> ModLineSet]
    /\ pc = "module"
    /\ err = ""
    /\ moduleName = ""
    /\ config = [Layers |-> <<>>]
    /\ prov = <<>>
    /\ backing = [gen |-> 0, cap |-> 0]
    /\ currentLayer = Nil
    /\ lastSel = "none"
    /\ result = Nil
    /\ doc = 0
    /\ pos = 0
    /\ inLayersSection = FALSE
    /\ inPackagesSection = FALSE
    /\ target = NoTarget
    /\ targetLayer = 0
    /\ deps = <<>>
    /\ rawLine = ""

\* parser.go:242-267 on the manifest
CallGetModuleName ==
    /\ pc = "module"
    /\ LET r == GetModuleNameFromContent(argLines, SourceName) IN
         /\ moduleName' = r.moduleName
         /\ err' = r.err
    /\ pc' = "returned"
    /\ UNCHANGED <<doc, pos, rawLine, config, backing, inLayersSection, inPackagesSection,
                   currentLayer, result, prov, lastSel, argLines, target, targetLayer,
                   deps>>

NextModule == CallGetModuleName

SpecModule == InitModule /\ [][NextModule]_vars

-----------------------------------------------------------------------------
(* Vocabulary of the properties *)

\* a call of GetDependenciesForPackage has returned and had found its target
Found == target # NoTarget /\ targetLayer # 0

\* how often x occurs in the sequence
Count(seq, x) == Cardinality({n \in 1..Len(seq) : seq[n] = x})

\* the package records <<layer, index>> of the layers of an order below layer t's
UpperRecords(dc, t) ==
    UNION {{<<i, k>> : k \in 1..Len(dc.Layers[i].Packages)} :
              i \in {i \in 1..Len(dc.Layers) : dc.Layers[i].Order < dc.Layers[t].Order}}

RecordPath(dc, r) == dc.Layers[r[1]].Packages[r[2]].Path

\* the first index of the target's path in layer t
FirstIndex(dc, t, path) ==
    CHOOSE j \in 1..Len(dc.Layers[t].Packages) :
        /\ dc.Layers[t].Packages[j].Path = path
        /\ \A i \in 1..(j - 1) : dc.Layers[t].Packages[i].Path # path

\* the rule of the same layer: shallower, or as deep and declared earlier
Qualifies(dc, t, i, tp) ==
    LET p == dc.Layers[t].Packages[i] IN
    \/ p.Level < tp.Level
    \/ (p.Level = tp.Level /\ i < FirstIndex(dc, t, tp.Path))

\* the package records of layer t the same-layer rule admits, among those
\* whose path is not the target's
SameRecords(dc, t, tp) ==
    {r \in {t} \X (1..Len(dc.Layers[t].Packages)) :
        RecordPath(dc, r) # tp.Path /\ Qualifies(dc, t, r[2], tp)}

\* the same, among all the records but the target's own at its first index
SameRecordsByIndex(dc, t, tp) ==
    {r \in {t} \X (1..Len(dc.Layers[t].Packages)) :
        r[2] # FirstIndex(dc, t, tp.Path) /\ Qualifies(dc, t, r[2], tp)}

\* the part of deps behind the upper-layer part
SameLayerPart ==
    SubSeq(deps, Cardinality(UpperRecords(result, targetLayer)) + 1, Len(deps))

\* r stands before s in declaration order
DeclBefore(r, s) == r[1] < s[1] \/ (r[1] = s[1] /\ r[2] < s[2])

\* r stands before s when the layers are taken by ascending order value
OrderBefore(dc, r, s) ==
    \/ dc.Layers[r[1]].Order < dc.Layers[s[1]].Order
    \/ (dc.Layers[r[1]].Order = dc.Layers[s[1]].Order /\ DeclBefore(r, s))

-----------------------------------------------------------------------------
(* C1 *)

\* C1: after a numbered line of the Packages section that matches no declared
\* layer, every bullet line up to the next matching selector is dropped: no
\* package of the model was appended while the last selector was unmatched,
\* and such a bullet raises no error.
C1_BulletsAfterUnmatchedSelectorDropped ==
    \A l \in 1..Len(prov) : \A k \in 1..Len(prov[l].pkgs) : prov[l].pkgs[k].sel # "miss"

-----------------------------------------------------------------------------
(* C2 *)

\* C2: for a found target, the first part of the result holds exactly the paths
\* of all package records of the layers whose order is strictly below the target
\* layer's, each as often as it is recorded there, whatever its level; what
\* follows comes from the target's own layer, so that no other layer of an equal
\* or greater order contributes.
C2_UpperLayerPart ==
    Found =>
        LET U == UpperRecords(result, targetLayer)
            n == Cardinality(U)
            own == result.Layers[targetLayer].Packages
        IN  /\ Len(deps) >= n
            /\ \A x \in AllPaths(result) :
                  Count(SubSeq(deps, 1, n), x) =
                      Cardinality({r \in U : RecordPath(result, r) = x})
            /\ Len(deps) - n <= Len(own) - 1
            /\ \A m \in (n + 1)..Len(deps) :
                  \E k \in 1..Len(own) : own[k].Path = deps[m] /\ deps[m] # target.Path

\* a found target with an upper layer that holds a package of level 1 and
\* another layer of an order not below its own that holds a package too
C2_Witness ==
    /\ Found
    /\ \E r \in UpperRecords(result, targetLayer) :
          result.Layers[r[1]].Packages[r[2]].Level = 1
    /\ \E i \in 1..Len(result.Layers) :
          /\ i # targetLayer
          /\ result.Layers[i].Order >= result.Layers[targetLayer].Order
          /\ result.Layers[i].Packages # <<>>
    /\ Len(deps) = Cardinality(UpperRecords(result, targetLayer))

-----------------------------------------------------------------------------
(* C3 *)

\* C3 as stated: for a found target at index j of its layer, every other record
\* of that layer, at an index i # j, is in the same-layer part of the result if
\* and only if it is shallower than the target, or as deep and i < j.
C3_IncludedIffRuleByIndex ==
    Found =>
        \A x \in AllPaths(result) :
            Count(SameLayerPart, x) =
                Cardinality({r \in SameRecordsByIndex(result, targetLayer, target) :
                                RecordPath(result, r) = x})

\* C3, amended: for a found target whose path is first at index j of its layer,
\* a record of that layer whose path differs from the target's is in the
\* same-layer part of the result if and only if it is shallower than the target,
\* or as deep and at an index i < j; a record with the target's path is never in it.
C3_IncludedIffRule ==
    Found =>
        \A x \in AllPaths(result) :
            Count(SameLayerPart, x) =
                Cardinality({r \in SameRecords(result, targetLayer, target) :
                                RecordPath(result, r) = x})

\* a found target with a shallower sibling, an earlier sibling of its depth and
\* a later sibling of its depth, the first two in the result and the third not
C3_Witness ==
    /\ Found
    /\ LET own == result.Layers[targetLayer].Packages
           j == FirstIndex(result, targetLayer, target.Path)
       IN  /\ \E i \in 1..Len(own) :
                 own[i].Level < target.Level /\ Count(SameLayerPart, own[i].Path) = 1
           /\ \E i \in 1..Len(own) :
                 own[i].Level = target.Level /\ i < j /\ Count(SameLayerPart, own[i].Path) = 1
    /\ Len(SameLayerPart) = 2

-----------------------------------------------------------------------------
(* C4 *)

\* the sequence that lists the records of U in the order `before' and then
\* those of S by index: deps is that sequence
ListsInOrder(dc, U, S, before(_, _)) ==
    /\ Len(deps) = Cardinality(U) + Cardinality(S)
    /\ \A r \in U :
          deps[1 + Cardinality({s \in U : before(s, r)})] = RecordPath(dc, r)
    /\ \A r \in S :
          deps[Cardinality(U) + 1 + Cardinality({s \in S : s[2] < r[2]})] = RecordPath(dc, r)

\* C4 as stated: the result is the upper-layer paths, the layers visited in
\* ascending order of their order value and each layer's packages in declaration
\* order, followed by the same-layer paths in declaration order, nothing removed.
C4_UpperAscendingThenSame ==
    Found =>
        LET before(r, s) == OrderBefore(result, r, s) IN
        ListsInOrder(result, UpperRecords(result, targetLayer),
                     SameRecords(result, targetLayer, target), before)

\* C4, amended: the result is the upper-layer paths, the layers visited in the
\* order of their declaration (not sorted by order value) and each layer's
\* packages in declaration order, followed by the same-layer paths in declaration
\* order, nothing removed: a path that qualifies k times appears k times.
C4_UpperDeclaredThenSame ==
    Found =>
        ListsInOrder(result, UpperRecords(result, targetLayer),
                     SameRecords(result, targetLayer, target), DeclBefore)

\* a found target with two upper layers declared against their order values,
\* and a result that holds a path twice
C4_Witness ==
    /\ Found
    /\ \E i, k \in 1..Len(result.Layers) :
          /\ i < k
          /\ result.Layers[i].Order > result.Layers[k].Order
          /\ result.Layers[i].Order < result.Layers[targetLayer].Order
          /\ result.Layers[i].Packages # <<>>
          /\ result.Layers[k].Packages # <<>>
    /\ \E x \in AllPaths(result) : Count(deps, x) = 2

-----------------------------------------------------------------------------
(* C5 *)

\* C5: the layer the call works on is the first layer, in declaration order,
\* that holds a package with the target's path; when no layer holds that path
\* the call finds none and returns an empty sequence.
C5_FirstHoldingLayerOrEmpty ==
    target # NoTarget =>
        LET holding == {i \in 1..Len(result.Layers) :
                           \E k \in 1..Len(result.Layers[i].Packages) :
                              result.Layers[i].Packages[k].Path = target.Path}
        IN  /\ holding = {} => targetLayer = 0 /\ deps = <<>>
            /\ holding # {} =>
                  /\ targetLayer \in holding
                  /\ \A i \in holding : targetLayer <= i
                  /\ Len(deps) = Cardinality(UpperRecords(result, targetLayer))
                                 + Cardinality(SameRecords(result, targetLayer, target))

\* a call for a path that two layers hold, the second of the lower order and
\* with more to depend on
C5_Witness ==
    /\ Found
    /\ \E i \in 1..Len(result.Layers) :
          /\ i > targetLayer
          /\ \E k \in 1..Len(result.Layers[i].Packages) :
                result.Layers[i].Packages[k].Path = target.Path
          /\ result.Layers[i].Order # result.Layers[targetLayer].Order
    /\ deps # <<>>

-----------------------------------------------------------------------------
(* C6 *)

\* the scan of the canonical text has returned
CanonicalParsed == doc = 1 /\ pc = "done" /\ result # Nil

\* C6: on the model parsed from the canonical text, the call returns nothing
\* for domain/entity at level 0, the two level-0 packages of its layer for
\* domain/service at level 1, and the whole Domain layer followed by app/service
\* for app/usecase at level 1.
C6_CanonicalDependencies ==
    CanonicalParsed =>
        /\ target = [Path |-> "domain/entity", Level |-> 0] => deps = <<>>
        /\ target = [Path |-> "domain/service", Level |-> 1] =>
              deps = <<"domain/entity", "domain/valueobject">>
        /\ target = [Path |-> "app/usecase", Level |-> 1] =>
              deps = <<"domain/entity", "domain/valueobject", "domain/service", "app/service">>

\* the call for app/usecase on the canonical model has returned its four paths
C6_Witness ==
    /\ CanonicalParsed
    /\ target = [Path |-> "app/usecase", Level |-> 1]
    /\ Len(deps) = 4

-----------------------------------------------------------------------------
(* C7 *)

\* index of the first occurrence of the character c in s, Len(s) + 1 if none
IndexOf(s, c) ==
    IF \A i \in 1..Len(s) : Ch(s, i) # c THEN Len(s) + 1
    ELSE CHOOSE i \in 1..Len(s) : Ch(s, i) = c /\ \A j \in 1..(i - 1) : Ch(s, j) # c

\* what a line "<integer>. <name>" declares
DeclaredOrder(text) ==
    LET t == TrimSpace(text) IN
    CHOOSE n \in 0..99 : ToString(n) = SubSeq(t, 1, IndexOf(t, ".") - 1)

DeclaredName(text) == TrimSpace(Drop(text, IndexOf(text, ".")))

\* what a line "<indentation>- <path>" lists
ListedPath(text) == TrimSpace(Drop(text, IndexOf(text, "-")))

ListedLevel(text) == IF IndexOf(text, "-") - 1 >= 4 THEN 1 ELSE 0

CanonicalModel ==
    [Layers |->
        << [Name |-> "Domain layer", Order |-> 1, Packages |->
               << [Path |-> "domain/entity", Level |-> 0],
                  [Path |-> "domain/valueobject", Level |-> 0],
                  [Path |-> "domain/service", Level |-> 1] >>],
           [Name |-> "Application layer", Order |-> 2, Packages |->
               << [Path |-> "app/service", Level |-> 0],
                  [Path |-> "app/usecase", Level |-> 1] >>],
           [Name |-> "Presentation layer", Order |-> 3, Packages |->
               << [Path |-> "api", Level |-> 0],
                  [Path |-> "cli", Level |-> 0] >>],
           [Name |-> "Infra layer", Order |-> 4, Packages |->
               << [Path |-> "infra/database", Level |-> 0],
                  [Path |-> "infra/cache", Level |-> 0] >>] >>]

\* C7: a successful parse returns the layers in the order of their declaration
\* lines, each with the name and the order its line declares, and each layer's
\* packages in the order of their bullet lines, each with the path its line
\* lists and the level its indentation gives; for the canonical text this is the
\* four layers of orders 1..4 with 3, 2, 2 and 2 packages, domain/service at
\* level 1 and domain/entity and domain/valueobject at level 0.
C7_ParsedModel ==
    /\ pc = "done" /\ result # Nil =>
          /\ Len(result.Layers) = Len(prov)
          /\ \A l \in 1..Len(prov) :
                LET layer == result.Layers[l] IN
                /\ layer.Name = DeclaredName(prov[l].decl.text)
                /\ layer.Order = DeclaredOrder(prov[l].decl.text)
                /\ l > 1 => prov[l - 1].decl.no < prov[l].decl.no
                /\ Len(layer.Packages) = Len(prov[l].pkgs)
                /\ \A k \in 1..Len(prov[l].pkgs) :
                      /\ layer.Packages[k].Path = ListedPath(prov[l].pkgs[k].text)
                      /\ layer.Packages[k].Level = ListedLevel(prov[l].pkgs[k].text)
                      /\ k > 1 => prov[l].pkgs[k - 1].no < prov[l].pkgs[k].no
                      /\ prov[l].decl.no < prov[l].pkgs[k].no
    /\ doc = 1 /\ pc = "done" => result = CanonicalModel

\* the canonical text has been parsed to its four layers
C7_Witness ==
    /\ CanonicalParsed
    /\ Len(result.Layers) = 4
    /\ Len(result.Layers[1].Packages) = 3
    /\ target = NoTarget

-----------------------------------------------------------------------------
(* C8 *)

\* C8: the order of every layer is the integer written on its declaration
\* line, never its position; gaps and repeated orders are kept as written and
\* raise no error.
C8_OrderAsWritten ==
    /\ \A l \in 1..Len(config.Layers) :
          config.Layers[l].Order = DeclaredOrder(prov[l].decl.text)
    /\ pc = "done" /\ result # Nil => result.Layers = config.Layers
    /\ ~HasPrefix(err, "invalid layer order")

\* a successful parse of a text whose first layer is declared with order 3 and
\* whose second has the same order
C8_Witness ==
    /\ pc = "done" /\ result # Nil
    /\ Len(result.Layers) = 2
    /\ result.Layers[1].Order = 3
    /\ result.Layers[2].Order = 3
    /\ result.Layers[1].Name # result.Layers[2].Name

-----------------------------------------------------------------------------
(* C9 *)

\* C9: every layer of a model a successful parse returns has an order of at
\* least 1.
C9_OrderPositive ==
    pc = "done" /\ result # Nil =>
        \A l \in 1..Len(result.Layers) : result.Layers[l].Order >= 1

-----------------------------------------------------------------------------
(* C10 *)

\* the bullet line of the direct calls has been handled
BulletHandled == pc = "call" /\ argLines = <<>>

\* number of space characters among the first n characters of the line
SpacesAmong(line, n) == Cardinality({i \in 1..n : Ch(line, i) = " "})

\* number of characters of the line before its first character that is no space
LeadingRun(line) ==
    CHOOSE n \in 0..Len(line) :
        /\ \A i \in 1..n : Ch(line, i) = " "
        /\ n < Len(line) => Ch(line, n + 1) # " "

\* C10 as stated: the level is 1 when four or more space characters stand
\* before the bullet marker and 0 otherwise.
C10_LevelFromSpacesBeforeMarker ==
    BulletHandled =>
        \A k \in 1..Len(config.Layers[1].Packages) :
            LET text == prov[1].pkgs[k].text IN
            config.Layers[1].Packages[k].Level =
                IF SpacesAmong(text, IndexOf(text, "-") - 1) >= 4 THEN 1 ELSE 0

\* C10, amended: the level is 1 when the line starts with four or more space
\* characters (counted up to the first character that is not a space, so that
\* spaces behind a tab do not count) and 0 otherwise; every package has level 0
\* or 1 however deep the indentation.
C10_LevelFromLeadingSpaces ==
    BulletHandled =>
        /\ err = ""
        /\ Len(config.Layers[1].Packages) = 1
        /\ \A k \in 1..Len(config.Layers[1].Packages) :
              /\ config.Layers[1].Packages[k].Level =
                    IF LeadingRun(prov[1].pkgs[k].text) >= 4 THEN 1 ELSE 0
              /\ config.Layers[1].Packages[k].Level \in {0, 1}

\* a bullet behind six spaces has been appended at level 1
C10_Witness ==
    /\ BulletHandled
    /\ Len(config.Layers[1].Packages) = 1
    /\ prov[1].pkgs[1].text = "      - p"
    /\ config.Layers[1].Packages[1].Level = 1

-----------------------------------------------------------------------------
(* C11 *)

\* the path handed to LayerPath.Validate
ValidatedPath == argLines[1]

\* C11: LayerPath.Validate returns an error exactly when the path is empty,
\* consists of whitespace only, or has two dots next to each other anywhere,
\* inside a segment too; the paths "." and "/" are accepted.
C11_PathRejectedIff ==
    pc = "validated" =>
        LET p == ValidatedPath
            blank == \A i \in 1..Len(p) : Ch(p, i) \in {" ", "\t"}
            twoDots == \E i \in 1..(Len(p) - 1) : SubSeq(p, i, i + 1) = ".."
        IN  /\ err # "" <=> (blank \/ twoDots)
            /\ p \in {".", "/"} => err = ""

\* the path a..b, whose two dots are no segment, has been rejected
C11_Witness ==
    /\ pc = "validated"
    /\ ValidatedPath = "a..b"
    /\ err = "layer path cannot contain '..' for security reasons"

-----------------------------------------------------------------------------
(* Lines, as the specification of the input format describes them *)

Blank(c) == c \in {" ", "\t"}

\* the line without the blanks around it
Inner(l) ==
    IF \A i \in 1..Len(l) : Blank(Ch(l, i)) THEN ""
    ELSE LET a == CHOOSE i \in 1..Len(l) :
                     ~Blank(Ch(l, i)) /\ \A j \in 1..(i - 1) : Blank(Ch(l, j))
             b == CHOOSE i \in 1..Len(l) :
                     ~Blank(Ch(l, i)) /\ \A j \in (i + 1)..Len(l) : Blank(Ch(l, j))
         IN  SubSeq(l, a, b)

\* the positions of the line at which a text is found
Occurs(l, text) ==
    {i \in 1..(Len(l) - Len(text) + 1) : SubSeq(l, i, i + Len(text) - 1) = text}

\* the lines "<integer>." with n digits
NumberedWith(l, n) ==
    /\ n >= 1 /\ n < Len(Inner(l))
    /\ \A i \in 1..n : Ch(Inner(l), i) \in {"0", "1", "2", "3", "4", "5", "6", "7", "8", "9"}
    /\ Ch(Inner(l), n + 1) = "."

\* "<integer>." and nothing but blanks after it
NumberedEmpty(l) == \E n \in 1..Len(l) : NumberedWith(l, n) /\ Len(Inner(l)) = n + 1

\* "<integer>.", whitespace, then a text
NumberedText(l) ==
    \E n \in 1..Len(l) : NumberedWith(l, n) /\ Len(Inner(l)) > n + 2
                         /\ Blank(Ch(Inner(l), n + 2))

Prose(l) == Occurs(l, "cannot depend") # {}

\* "- " and a path, behind any indentation
Bullet(l) == 1 \in Occurs(Inner(l), "- ") /\ ~Prose(l)

\* the path a bullet line lists
BulletPath(l) == Inner(SubSeq(Inner(l), 3, Len(Inner(l))))

\* the last line scanned is one the parser validates and that fails: a
\* numbered line without a name inside a section, or a bullet under a selected
\* layer whose path holds ".."
FailsValidation ==
    /\ pos >= 1
    /\ \/ (inLayersSection \/ inPackagesSection) /\ NumberedEmpty(rawLine)
       \/ inPackagesSection /\ currentLayer # Nil /\ Bullet(rawLine)
          /\ Occurs(BulletPath(rawLine), "..") # {}

-----------------------------------------------------------------------------
(* C12 *)

\* C12: a line that fails validation ends the parse with an error and no
\* model: after such a line the error is set, the parse is over without having
\* read a further line, and nil is returned whatever has been built so far; a
\* model is returned only without an error.
C12_ErrorReturnsNoModel ==
    /\ FailsValidation => err # ""
    /\ err # "" => pc = "done" /\ result = Nil /\ FailsValidation /\ target = NoTarget

\* the parse has failed on a line with valid lines before and after it, and
\* the model built so far holds a layer with a package
C12_Witness ==
    /\ doc # 0 /\ pc = "done" /\ err # "" /\ result = Nil
    /\ pos < Len(Documents[doc])
    /\ \E l \in 1..Len(config.Layers) : config.Layers[l].Packages # <<>>

-----------------------------------------------------------------------------
(* C14 *)

\* a step of the loop: one more line has been scanned
LineScanned == pc = "scan" /\ pos' = pos + 1

HeaderLayers(l) == 1 \in Occurs(Inner(l), "## Layers")

HeaderPackages(l) == 1 \in Occurs(Inner(l), "## Packages in layers")

\* C14: the section flags change only when the line scanned is a '## Layers'
\* or a '## Packages in layers' header, which makes its section the active one;
\* every other line, a blank line or another '#' line included, leaves them as
\* they are; and while no header has been seen the model has no layer, hence
\* no package.
C14_SectionChangesOnHeadersOnly ==
    [][LineScanned =>
          /\ HeaderLayers(rawLine') => inLayersSection' /\ ~inPackagesSection'
          /\ HeaderPackages(rawLine') => ~inLayersSection' /\ inPackagesSection'
          /\ ~HeaderLayers(rawLine') /\ ~HeaderPackages(rawLine') =>
                UNCHANGED <<inLayersSection, inPackagesSection>>
          /\ ~inLayersSection' /\ ~inPackagesSection' =>
                config' = [Layers |-> <<>>] /\ err' = ""]_vars

\* a '#' line that names a header in its text has been scanned in the Packages
\* section of a text that had a numbered line and a bullet before its first
\* header, and the section is still the Packages section
C14_Witness ==
    /\ doc # 0 /\ pc = "scan"
    /\ rawLine = "# see ## Layers"
    /\ inPackagesSection /\ ~inLayersSection
    /\ Documents[doc][2] = "1. Stray layer"
    /\ \A l \in 1..Len(config.Layers) : config.Layers[l].Name # "Stray layer"

-----------------------------------------------------------------------------
(* C15 *)

\* C15: inside the Layers section and inside the Packages section alike, a
\* numbered line with nothing or only whitespace after '<integer>.' ends the
\* parse with the error 'layer name cannot be empty' and no model.
C15_EmptyNameFails ==
    pos >= 1 /\ (inLayersSection \/ inPackagesSection) /\ NumberedEmpty(rawLine) =>
        /\ err = "invalid layer name: layer name cannot be empty"
        /\ pc = "done" /\ result = Nil

\* the line "2." of the Packages section, after a selector and a bullet that
\* were accepted, has ended the parse with the error
C15_Witness ==
    /\ inPackagesSection /\ rawLine = "2." /\ currentLayer # Nil
    /\ err = "invalid layer name: layer name cannot be empty"
    /\ \E l \in 1..Len(config.Layers) : config.Layers[l].Packages # <<>>

-----------------------------------------------------------------------------
(* C16 *)

\* the lines the Layers section takes for no declaration
IgnoredInLayers(l) ==
    \/ Inner(l) = ""
    \/ Prose(l)
    \/ 1 \in Occurs(Inner(l), "-")
    \/ ~NumberedEmpty(l) /\ ~NumberedText(l)

\* C16: in the Layers section a blank line, a line holding 'cannot depend', a
\* line starting with a bullet marker and any line that is not '<integer>.'
\* followed by whitespace and a text or by nothing leave the model as it is,
\* raise no error and let the parse go on.
C16_IgnoredLinesInLayers ==
    [][LineScanned /\ inLayersSection /\ IgnoredInLayers(rawLine') =>
          /\ config' = config
          /\ err' = "" /\ pc' = "scan"]_vars

\* the line "x. Invalid layer" has been scanned in the Layers section after
\* one declaration, and the model still has that one layer
C16_Witness ==
    /\ inLayersSection /\ pc = "scan" /\ err = ""
    /\ rawLine = "x. Invalid layer"
    /\ Len(config.Layers) = 1

-----------------------------------------------------------------------------
(* C17 *)

\* the layers a selector line names: same name and same order
Named(layers, l) ==
    {i \in 1..Len(layers) : /\ layers[i].Name = DeclaredName(Inner(l))
                            /\ layers[i].Order = DeclaredOrder(l)}

ValidPath(p) == p # "" /\ Occurs(p, "..") = {}

\* C17: in the Packages section a numbered line makes the first declared layer
\* with its name and its order the current one and, when no layer has both,
\* selects nothing: the current layer stays what it was; a bullet with a valid
\* path under a current layer puts that path at the end of that layer's
\* packages and changes no other layer.
C17_SelectorAndBullets ==
    [][LineScanned /\ inPackagesSection /\ ~Prose(rawLine') =>
          /\ NumberedText(rawLine') =>
                /\ config' = config
                /\ IF Named(config.Layers, rawLine') = {}
                   THEN currentLayer' = currentLayer
                   ELSE /\ currentLayer' # Nil
                        /\ currentLayer'.idx \in Named(config.Layers, rawLine')
                        /\ \A i \in Named(config.Layers, rawLine') : currentLayer'.idx <= i
          /\ Bullet(rawLine') /\ ValidPath(BulletPath(rawLine')) /\ currentLayer # Nil =>
                /\ currentLayer' = currentLayer
                /\ Len(config'.Layers) = Len(config.Layers)
                /\ \A i \in 1..Len(config.Layers) :
                      LET old == config.Layers[i]
                          new == config'.Layers[i]
                      IN  IF i = currentLayer.idx
                          THEN /\ Len(new.Packages) = Len(old.Packages) + 1
                               /\ SubSeq(new.Packages, 1, Len(old.Packages)) = old.Packages
                               /\ new.Packages[Len(new.Packages)].Path = BulletPath(rawLine')
                               /\ new.Name = old.Name /\ new.Order = old.Order
                          ELSE new = old]_vars

\* of two layers of the same order the second has been selected by its name
\* and order, and the bullet after the selector is its only package
C17_Witness ==
    /\ inPackagesSection /\ pc = "scan"
    /\ Len(config.Layers) = 2
    /\ config.Layers[1].Order = config.Layers[2].Order
    /\ currentLayer # Nil /\ currentLayer.idx = 2
    /\ Bullet(rawLine)
    /\ config.Layers[1].Packages = <<>>
    /\ Len(config.Layers[2].Packages) = 1
    /\ config.Layers[2].Packages[1].Path = BulletPath(rawLine)

-----------------------------------------------------------------------------
(* C18 *)

\* the layers of a model without their packages
LayerHeads(dc) ==
    [i \in 1..Len(dc.Layers) |-> [Name |-> dc.Layers[i].Name, Order |-> dc.Layers[i].Order]]

\* C18: a line scanned in the Packages section leaves the sequence of layers,
\* their names and their orders as they are; and the text that has only a
\* Packages section is parsed without an error to a model of no layers.
C18_PackagesSectionKeepsLayers ==
    [][/\ LineScanned /\ inPackagesSection => LayerHeads(config') = LayerHeads(config)
       /\ doc' = 4 /\ pc' = "done" =>
             err' = "" /\ result' # Nil /\ result'.Layers = <<>>]_vars

\* the text with only a Packages section, a selector and a bullet in it, has
\* been parsed to the model of no layers
C18_Witness ==
    /\ doc = 4 /\ pc = "done" /\ pos = Len(Documents[4])
    /\ ~inLayersSection /\ inPackagesSection
    /\ err = "" /\ result = [Layers |-> <<>>]

-----------------------------------------------------------------------------
(* C19 *)

\* the manifest handed to GetModuleNameFromContent
Manifest == argLines

\* what follows the first n characters of the line
RestAfter(l, n) == IF Len(l) > n THEN SubSeq(l, n + 1, Len(l)) ELSE ""

\* the lines of the manifest that start with "module ", as they are written
\* and once the whitespace around them is taken off
ModuleLinesWritten == {i \in 1..Len(Manifest) : 1 \in Occurs(Manifest[i], "module ")}

ModuleLinesTrimmed == {i \in 1..Len(Manifest) : 1 \in Occurs(Inner(Manifest[i]), "module ")}

ModuleNotFound ==
    err = "module declaration not found in " \o SourceName /\ moduleName = ""

\* the call has been decided by the first line of S, with ModuleNotFoundError
\* when S is empty: the identifier is what follows "module " on that line
\* without the whitespace around it, or the error is that of an invalid
\* identifier, which an empty identifier and one with a space are
DecidedByFirstOf(S) ==
    IF S = {} THEN ModuleNotFound
    ELSE LET i == CHOOSE k \in S : \A j \in S : k <= j
             r == Inner(RestAfter(Inner(Manifest[i]), 7))
         IN  /\ ~ModuleNotFound
             /\ \/ err = "" /\ moduleName = r
                \/ 1 \in Occurs(err, "invalid module name: ") /\ moduleName = ""
             /\ r = "" \/ Occurs(r, " ") # {} => err # ""
             /\ r # "" /\ (\A k \in 1..Len(r) : ~Blank(Ch(r, k))) => err = ""

\* C19 as stated: the first line that starts with 'module ' decides, and
\* ModuleNotFoundError is returned exactly when no line starts with 'module '.
C19_FirstModuleLineDecides ==
    pc = "returned" => DecidedByFirstOf(ModuleLinesWritten)

\* C19: the first line that starts with 'module ' once the whitespace around
\* it is taken off decides: the call returns what follows 'module ' on it,
\* trimmed, or the error of an invalid identifier, whatever the later lines
\* are; ModuleNotFoundError is returned exactly when no trimmed line starts
\* with 'module '.
C19_FirstTrimmedModuleLineDecides ==
    pc = "returned" => DecidedByFirstOf(ModuleLinesTrimmed)

\* the call has failed on a first 'module ' line with a space in its
\* identifier although the next line declares a valid one
C19_Witness ==
    /\ pc = "returned"
    /\ Len(Manifest) >= 2
    /\ Manifest[1] = "module a b" /\ Manifest[2] = "module a"
    /\ err = "invalid module name: module name cannot contain spaces"
    /\ moduleName = ""

-----------------------------------------------------------------------------
(* C20 *)

\* C20: a module identifier that GetModuleNameFromContent returns holds no
\* whitespace character, neither a space nor a tab.
C20_NoWhitespaceInModuleName ==
    pc = "returned" /\ err = "" =>
        \A k \in 1..Len(moduleName) : ~Blank(Ch(moduleName, k))

-----------------------------------------------------------------------------
(* C21 *)

\* the parse of this text is over
Parsed(text) == doc # 0 /\ Documents[doc] = text /\ pc = "done"

\* the model without its packages
WithoutPackages(dc) ==
    [Layers |-> [i \in 1..Len(dc.Layers) |-> [dc.Layers[i] EXCEPT !.Packages = <<>>]]]

\* C21 as stated: the canonical text and the same text with its Packages
\* section before its Layers section are parsed to the same model.
C21_SameModelInEitherOrder ==
    /\ Parsed(Canonical) => err = "" /\ result = CanonicalModel
    /\ Parsed(SectionsSwapped(Canonical)) => err = "" /\ result = CanonicalModel

\* C21: both orders of the sections are parsed without an error, but only the
\* text with its Layers section first gives the layers their packages: with
\* the Packages section first no selector finds a declared layer, every bullet
\* is dropped, and the model is the same layers without any package.
C21_PackagesFirstGivesNoPackages ==
    /\ Parsed(Canonical) => err = "" /\ result = CanonicalModel
    /\ Parsed(SectionsSwapped(Canonical)) =>
          err = "" /\ result = WithoutPackages(CanonicalModel)

\* the canonical text with its Packages section first has been parsed to its
\* four layers, all of them empty
C21_Witness ==
    /\ Parsed(SectionsSwapped(Canonical))
    /\ result # Nil
    /\ Len(result.Layers) = 4
    /\ \A l \in 1..4 : result.Layers[l].Packages = <<>>
    /\ inLayersSection

-----------------------------------------------------------------------------
(* C22 *)

\* the records of S in declaration order
RECURSIVE Declared(_)
Declared(S) ==
    IF S = {} THEN <<>>
    ELSE LET m == CHOOSE r \in S : \A s \in S \ {r} : DeclBefore(r, s)
         IN  <<m>> \o Declared(S \ {m})

\* what a call for tp returns on the model dc, by the rule alone: nothing when
\* no layer holds tp's path, else the paths of the upper layers' records and
\* then those of the records its own layer admits
DependenciesByRule(dc, tp) ==
    LET holding == {i \in 1..Len(dc.Layers) :
                       \E k \in 1..Len(dc.Layers[i].Packages) :
                          dc.Layers[i].Packages[k].Path = tp.Path}
    IN  IF holding = {} THEN <<>>
        ELSE LET t == CHOOSE i \in holding : \A j \in holding : i <= j
                 recs == Declared(UpperRecords(dc, t)) \o Declared(SameRecords(dc, t, tp))
             IN  [n \in 1..Len(recs) |-> RecordPath(dc, recs[n])]

\* C22: a call of GetDependenciesForPackage leaves the model as the parse
\* returned it, and what it returns depends on the model and its target only:
\* after any sequence of earlier calls for any targets, it is what the rule
\* gives for that target.
C22_QueryLeavesModel ==
    [][pc = "done" =>
          /\ result' = result
          /\ config' = config
          /\ target' # NoTarget => deps' = DependenciesByRule(result, target')]_vars

\* a call for infra/cache on the canonical model has returned the seven paths
\* of the three upper layers and infra/database, and the model is as parsed
C22_Witness ==
    /\ Parsed(Canonical)
    /\ target = [Path |-> "infra/cache", Level |-> 0]
    /\ Len(deps) = 8 /\ deps[8] = "infra/database"
    /\ result = CanonicalModel /\ config = CanonicalModel

-----------------------------------------------------------------------------
(* C23 *)

\* C23: in every state of the line loop at most one of the two section flags
\* is set, so that a line is handed to at most one of the two section parsers.
C23_OneSectionAtMost == ~(inLayersSection /\ inPackagesSection)

\* a Packages header has been scanned in the Layers section, after a layer was
\* declared there, and the Packages flag alone is set
C23_Witness ==
    /\ pc = "scan" /\ pos >= 3
    /\ rawLine = "## Packages in layers"
    /\ config.Layers # <<>>
    /\ inPackagesSection /\ ~inLayersSection

-----------------------------------------------------------------------------
(* C24 *)

\* C24: a bullet line scanned in the Packages section while no layer is
\* current is dropped before its path is looked at: the model stays as it is,
\* no layer becomes current and no error is raised, even for a path with '..'.
C24_BulletWithoutLayerDropped ==
    [][/\ LineScanned /\ inPackagesSection /\ currentLayer = Nil
       /\ 1 \in Occurs(Inner(rawLine'), "-") /\ ~Prose(rawLine')
       => /\ config' = config
          /\ currentLayer' = Nil
          /\ err' = "" /\ pc' = "scan"]_vars

\* the bullet with the path a..b has been scanned in the Packages section of a
\* text with a declared layer, no layer being current, and the parse goes on
C24_Witness ==
    /\ pc = "scan" /\ err = ""
    /\ inPackagesSection /\ currentLayer = Nil
    /\ rawLine = "  - a..b"
    /\ config.Layers # <<>>
    /\ \A l \in 1..Len(config.Layers) : config.Layers[l].Packages = <<>>

-----------------------------------------------------------------------------
(* C25 *)

\* the bullets the parser has accepted so far, over all layers
AcceptedBullets ==
    UNION {{prov[l].pkgs[k].no : k \in 1..Len(prov[l].pkgs)} : l \in 1..Len(prov)}

\* C25: while the Packages section is active, a current layer is an element
\* of the array the model's layer sequence uses now, so that a package is never
\* appended to a stale copy of a layer; right after a Packages header no layer
\* is current; and every bullet accepted under a current layer is a package of
\* the model that a successful parse returns, in texts with repeated sections
\* too.
C25_CurrentLayerNeverStale ==
    /\ inPackagesSection /\ currentLayer # Nil =>
          /\ currentLayer.gen = backing.gen
          /\ currentLayer.idx \in 1..Len(config.Layers)
    /\ pos >= 1 /\ HeaderPackages(rawLine) /\ ~HeaderLayers(rawLine) => currentLayer = Nil
    /\ pos >= 1 /\ inPackagesSection /\ currentLayer # Nil /\ err = ""
       /\ Bullet(rawLine) /\ ValidPath(BulletPath(rawLine)) =>
          /\ pos \in AcceptedBullets
          /\ LET pkgs == config.Layers[currentLayer.idx].Packages
             IN  pkgs # <<>> /\ pkgs[Len(pkgs)].Path = BulletPath(rawLine)
    /\ pc = "done" /\ result # Nil => result = config

\* the text with repeated sections has been parsed: layer A has the package
\* given to it in the first Packages section and the one given to it in the
\* second, after the array of the layers had been replaced by a larger one
C25_Witness ==
    /\ Parsed(Interleaved) /\ result # Nil
    /\ backing.gen >= 2
    /\ Len(result.Layers) = 2
    /\ PathsOf(result.Layers[1].Packages) = <<"x", "z">>
    /\ PathsOf(result.Layers[2].Packages) = <<"y">>

-----------------------------------------------------------------------------
(* C26 *)

\* C26: in a model that a successful parse returns every layer has a name
\* that is not empty and not made of whitespace only, and every package a path
\* that is not empty, not made of whitespace only and without '..'.
C26_ReturnedNamesAndPathsValid ==
    pc = "done" /\ result # Nil =>
        \A l \in 1..Len(result.Layers) :
            /\ Inner(result.Layers[l].Name) # ""
            /\ \A k \in 1..Len(result.Layers[l].Packages) :
                  LET path == result.Layers[l].Packages[k].Path
                  IN  Inner(path) # "" /\ Occurs(path, "..") = {}

\* a free text that ends with an accepted bullet has been parsed, and the
\* model returned has a layer with that one package
C26_Witness ==
    /\ pc = "done" /\ result # Nil /\ doc = 0
    /\ rawLine = "  - x"
    /\ \E l \in 1..Len(result.Layers) : PathsOf(result.Layers[l].Packages) = <<"x">>
    /\ target = NoTarget

-----------------------------------------------------------------------------
(* The dependency relation over the packages of a model *)

\* the package records <<layer, index>> of the model
Records(dc) ==
    UNION {{<<i, k>> : k \in 1..Len(dc.Layers[i].Packages)} : i \in 1..Len(dc.Layers)}

PackageAt(dc, r) == dc.Layers[r[1]].Packages[r[2]]

\* no path is recorded twice
DistinctPaths(dc) ==
    \A r, s \in Records(dc) : r # s => RecordPath(dc, r) # RecordPath(dc, s)

Holds(seq, x) == \E n \in 1..Len(seq) : seq[n] = x

\* p depends on q: q's path is in what the call for p returns
DependsOn(dc, p, q) == Holds(GetDependenciesForPackage(dc, p), q.Path)

\* the call made was for a package of a model without duplicate paths, with
\* the level the model records for it
RelationCase ==
    /\ target # NoTarget
    /\ DistinctPaths(result)
    /\ \E r \in Records(result) : PackageAt(result, r) = target

-----------------------------------------------------------------------------
(* C27 *)

\* C27: in a model without duplicate paths no package depends on itself, and
\* no package that the target depends on depends on the target.
C27_Asymmetric ==
    RelationCase =>
        /\ ~Holds(deps, target.Path)
        /\ \A r \in Records(result) :
              Holds(deps, RecordPath(result, r)) =>
                 ~DependsOn(result, PackageAt(result, r), target)

\* the target depends on a package of an upper layer and on a sibling of its
\* own layer, in a model without duplicate paths
C27_Witness ==
    /\ RelationCase
    /\ \E r, s \in Records(result) :
          /\ r[1] # targetLayer /\ Holds(deps, RecordPath(result, r))
          /\ s[1] = targetLayer /\ Holds(deps, RecordPath(result, s))

-----------------------------------------------------------------------------
(* C28 *)

\* C28: in a model without duplicate paths, what a dependency of the target
\* depends on is a dependency of the target.
C28_Transitive ==
    RelationCase =>
        \A b, a \in Records(result) :
            /\ Holds(deps, RecordPath(result, b))
            /\ DependsOn(result, PackageAt(result, b), PackageAt(result, a))
            => Holds(deps, RecordPath(result, a))

\* a chain over three layers: the target depends on a package of another
\* layer, which depends on a package of a third
C28_Witness ==
    /\ RelationCase
    /\ \E b, a \in Records(result) :
          /\ b[1] # targetLayer /\ a[1] # targetLayer /\ a[1] # b[1]
          /\ Holds(deps, RecordPath(result, b))
          /\ DependsOn(result, PackageAt(result, b), PackageAt(result, a))
          /\ Holds(deps, RecordPath(result, a))

-----------------------------------------------------------------------------
(* C29 *)

\* C29 as stated: whatever the model, the target's own path is not in what the
\* call returns.
C29_NeverOwnPath ==
    target # NoTarget => ~Holds(deps, target.Path)

\* C29: the target's own path comes back only from the layers above the one
\* the call works on: once for every record of that path in a layer whose
\* order is below that of the first layer holding it, never from that layer
\* itself; so it is absent whenever no such upper layer records the path.
C29_OwnPathOnlyFromUpperLayers ==
    /\ Found =>
          Count(deps, target.Path) =
             Cardinality({r \in UpperRecords(result, targetLayer) :
                             RecordPath(result, r) = target.Path})
    /\ target # NoTarget /\ targetLayer = 0 => deps = <<>>

\* the target's path is recorded twice in its own layer and once in an upper
\* layer that is declared after it, and the call returns it once
C29_Witness ==
    /\ Found
    /\ Count(PathsOf(result.Layers[targetLayer].Packages), target.Path) = 2
    /\ \E i \in 1..Len(result.Layers) :
          /\ i > targetLayer
          /\ result.Layers[i].Order < result.Layers[targetLayer].Order
          /\ Holds(PathsOf(result.Layers[i].Packages), target.Path)
    /\ Count(deps, target.Path) = 1

-----------------------------------------------------------------------------
(* C30 *)

\* C30: in a model without duplicate paths, of the target and any other
\* package of its layer exactly one depends on the other.
C30_SameLayerTotal ==
    RelationCase =>
        \A r \in Records(result) :
            r[1] = targetLayer /\ PackageAt(result, r) # target =>
               (Holds(deps, RecordPath(result, r))
                   <=> ~DependsOn(result, PackageAt(result, r), target))

\* the target has a sibling of its own depth declared after it, which it does
\* not depend on, and a deeper sibling declared before it
C30_Witness ==
    /\ RelationCase
    /\ \E r, s \in Records(result) :
          /\ r[1] = targetLayer /\ s[1] = targetLayer
          /\ PackageAt(result, r).Level = target.Level
          /\ r[2] > TargetIndex(result.Layers[targetLayer], target)
          /\ ~Holds(deps, RecordPath(result, r))
          /\ PackageAt(result, s).Level > target.Level
          /\ s[2] < TargetIndex(result.Layers[targetLayer], target)

=============================================================================
